---- MODULE Spec2Model ----
(***************************************************************************)
(* merked: a buffer is split into byte shards (lib/split.js), the shards   *)
(* are padded and hashed into leaves (lib/dag.js), and the leaves are      *)
(* folded into a Merkle tree (lib/tree.js).                                *)
(*                                                                         *)
(* Buffers are sequences of bytes; JavaScript's 0-based offsets are kept   *)
(* in the loop variables and translated where a sequence is indexed.       *)
(* A JavaScript value that can be a number, a string or undefined is a     *)
(* record [kind, num, unit]: Number(n) is the number n, Text(d, u) is the   *)
(* string made of the digits of d followed by the letters u ('4M' is       *)
(* Text(4, "M"), '2' is Text(2, "")), Undef is undefined.                  *)
(***************************************************************************)
EXTENDS Integers, Sequences, FiniteSets, TLC

VARIABLES
  pc,         \* where the running call stands: "idle", a loop, or "done"
  call,       \* the top-level call in progress or last completed, with its arguments
  options,    \* splitSync: the object checkOptions returned
  lines,      \* _split, line_bytes mode: the array splitByLines(buffer, 1) returned
  mapped,     \* _split, line_bytes mode: the arrays the map callback returned so far
  cur,        \* the buffer argument of the running splitByBytes / splitByLines
  size,       \* the size / lines argument of the running splitByBytes / splitByLines
  begin,      \* loop variable of splitByBytes and splitByLines
  end,        \* loop variable of splitByBytes
  index,      \* loop variable of splitByLines
  lineCount,  \* loop variable of splitByLines
  splitted,   \* the array the running loop pushes to
  result,     \* how the last call ended: [status, error, value]
  dag,        \* <<>> or <<d>>: the DAG instance the last construction returned
  tree,       \* <<>> or <<t>>: the MerkleTree instance constructed directly
  meta,       \* <<>> or <<m>>: what the last toMetadata call did
  prev,       \* <<>> or <<p>>: the outcome of an earlier fromBuffer with the same arguments
  built,      \* <<>> or <<x>>: the instance as its constructor returned it
  ret         \* <<>> or <<r>>: what the last call of toArray or of a tree method returned

splitVars == <<options, lines, mapped, cur, size, begin, end, index, lineCount, splitted>>
objVars == <<dag, tree, meta, prev, built, ret>>
vars == <<pc, call, options, lines, mapped, cur, size, begin, end, index, lineCount,
          splitted, result, dag, tree, meta, prev, built, ret>>

----------------------------------------------------------------------------
(* Bounds of the model *)

\* the longest input buffer
MaxLen == 3
\* the largest size given as a number
MaxSize == 3
\* the longest leaf sequence handed to the MerkleTree constructor directly
MaxLeaves == 5
\* the longest shard sequence handed to the DAG constructor directly
MaxShards == 3

(* Program constants *)
LF == 10
UnitK == 1024
UnitM == 1048576
UnitKB == 1000
UnitMB == 1000000

\* The bytes of the model: NUL, line feed and the digit '1'.
Byte == {0, LF, 49}

SeqsUpTo(S, n) == UNION {[1..k -> S] : k \in 0..n}
SeqsOfLen(S, n) == [1..n -> S]
Buffers == SeqsUpTo(Byte, MaxLen)

Min(a, b) == IF a < b THEN a ELSE b
Max(a, b) == IF a < b THEN b ELSE a

RECURSIVE Flatten(_)
Flatten(ss) == IF ss = <<>> THEN <<>> ELSE Head(ss) \o Flatten(Tail(ss))

RECURSIVE SumLen(_)
SumLen(ss) == IF ss = <<>> THEN 0 ELSE Len(Head(ss)) + SumLen(Tail(ss))

\* a slice that takes the byte at end as well
SliceInclusive(buffer, b, e) == SubSeq(buffer, b + 1, Min(e + 1, Len(buffer)))

\* buffer.slice(begin, end) and buffer.slice(begin): 0-based, end exclusive, clamped
Slice(buffer, b, e) == SubSeq(buffer, b + 1, Min(e, Len(buffer)))
SliceFrom(buffer, b) == SubSeq(buffer, b + 1, Len(buffer))

----------------------------------------------------------------------------
(* JavaScript values of the size options *)

Undef == [kind |-> "undefined", num |-> 0, unit |-> ""]
Number(n) == [kind |-> "number", num |-> n, unit |-> ""]
Text(d, u) == [kind |-> "string", num |-> d, unit |-> u]
NaN == [kind |-> "NaN", num |-> 0, unit |-> ""]

Units == {"", "K", "k", "M", "m", "KB", "kb", "MB", "mb", "Kb", "B"}
Numbers == {Number(n) : n \in -1..MaxSize}
Texts == {Text(d, u) : d \in {0, 4}, u \in Units}
SizeValues == Numbers \cup Texts

\* isNaN(v): a string coerces to a number only when it is all digits
isNaN(v) == v.kind \in {"undefined", "NaN"} \/ (v.kind = "string" /\ v.unit # "")

\* Every number of the model lies within Number.MIN_SAFE_INTEGER ..
\* Number.MAX_SAFE_INTEGER, so isSafe fails on NaN alone.
isSafe(v) == ~isNaN(v)

isDefined(property, object) == object[property].kind # "undefined"

\* /^(\d+)(KB|MB|K|M)$/i : the match is case-insensitive
RegexMatches(v) ==
  v.kind = "string" /\ v.unit \in {"K", "k", "M", "m", "KB", "kb", "MB", "mb",
                                  "Kb", "kB", "Mb", "mB"}

\* the switch on result[2]; a unit it has no case for gives undefined
unit(x) ==
  CASE x \in {"k", "K"} -> Number(UnitK)
    [] x \in {"m", "M"} -> Number(UnitM)
    [] x \in {"kb", "KB"} -> Number(UnitKB)
    [] x \in {"mb", "MB"} -> Number(UnitMB)
    [] OTHER -> Undef

\* result[1] * unit : NaN when the unit is undefined
Times(d, u) == IF u.kind = "undefined" THEN NaN ELSE Number(d * u.num)

NoOptions == [lines |-> Undef, bytes |-> Undef, line_bytes |-> Undef]
Threw(msg) == [threw |-> TRUE, error |-> msg, options |-> NoOptions]
Returned(o) == [threw |-> FALSE, error |-> "", options |-> o]
BadSize == [threw |-> TRUE, error |-> "Invalid number of bytes", value |-> Undef]
GoodSize(v) == [threw |-> FALSE, error |-> "", value |-> v]

\* The bytes / line_bytes branch of checkOptions when isNaN(size): the shorthand
BytesShorthand(sz) ==
  IF ~RegexMatches(sz) THEN BadSize
  ELSE IF ~isSafe(Times(sz.num, unit(sz.unit))) THEN BadSize
  ELSE GoodSize(Times(sz.num, unit(sz.unit)))

\* The bytes / line_bytes branch of checkOptions otherwise (Math.floor of an
\* integer is the integer)
BytesNumeric(sz) ==
  IF ~isSafe(sz) \/ sz.num < 1 THEN BadSize
  ELSE GoodSize(Number(sz.num))

ResolveBytes(sz) == IF isNaN(sz) THEN BytesShorthand(sz) ELSE BytesNumeric(sz)

checkOptions(_options) ==
  LET byLines == isDefined("lines", _options)
      byBytes == isDefined("bytes", _options)
      byLineBytes == isDefined("line_bytes", _options)
      sz == IF byBytes THEN _options.bytes ELSE _options.line_bytes
      r == ResolveBytes(sz)
  IN IF (byLines /\ byBytes) \/ (byBytes /\ byLineBytes) \/ (byLines /\ byLineBytes)
       THEN Threw("Cannot split in more than one way")
     ELSE IF ~byLines /\ ~byBytes /\ ~byLineBytes
       THEN Threw("Splitting way is not specified")
     ELSE IF byLines
       THEN IF isNaN(_options.lines) \/ ~isSafe(_options.lines) \/ _options.lines.num < 1
              THEN Threw("Invalid number of lines")
              ELSE Returned([NoOptions EXCEPT !.lines = Number(_options.lines.num)])
     ELSE IF r.threw THEN Threw(r.error)
     ELSE IF byBytes THEN Returned([NoOptions EXCEPT !.bytes = r.value])
     ELSE Returned([NoOptions EXCEPT !.line_bytes = r.value])

----------------------------------------------------------------------------
(* Hash functions.  DEFAULT_HASH_FUNC is SHA-256; the model puts a small    *)
(* deterministic digest of fixed length in its place, and a second one     *)
(* stands for a hasher the caller supplies.                                 *)

RECURSIVE Poly(_, _, _, _)
Poly(input, acc, base, modulus) ==
  IF input = <<>> THEN acc
  ELSE Poly(Tail(input), (acc * base + Head(input) + 1) % modulus, base, modulus)

\* stands for crypto.createHash('sha256').update(input).digest(): two bytes
DEFAULT_HASH_FUNC(input) ==
  LET v == Poly(input, 7, 31, 65521) IN <<v \div 256, v % 256>>

\* a caller-supplied hasher: one byte
CustomHash(input) == <<Poly(input, 3, 17, 251)>>

\* the hasher arguments of the model: none, a function, something not callable
HashArgs == {"undefined", "custom", "notCallable"}

isFunction(h) == h \in {"default", "custom"}

\* hasher || MerkleTree.DEFAULT_HASH_FUNC
OrDefault(h) == IF h = "undefined" THEN "default" ELSE h

Hash(h, input) == IF h = "custom" THEN CustomHash(input) ELSE DEFAULT_HASH_FUNC(input)

\* what reading a missing array element gives (rows[0][0] of an empty row)
Undefined == <<-1>>

HexDigits == <<"0", "1", "2", "3", "4", "5", "6", "7", "8", "9",
               "a", "b", "c", "d", "e", "f">>

\* buf.toString('hex')
RECURSIVE toHex(_)
toHex(buf) ==
  IF buf = <<>> THEN ""
  ELSE HexDigits[(Head(buf) \div 16) + 1] \o HexDigits[(Head(buf) % 16) + 1]
       \o toHex(Tail(buf))

----------------------------------------------------------------------------
(* lib/tree.js: MerkleTree.  Row j of the code is _rows[j + 1] here.       *)

\* a counter that stops at the last power of two not above n
RECURSIVE depthLoopFloor(_, _)
depthLoopFloor(pow, n) == IF 2 ^ (pow + 1) <= n THEN depthLoopFloor(pow + 1, n) ELSE pow

\* depth(): the while loop that counts pow up
RECURSIVE depthLoop(_, _)
depthLoop(pow, n) == IF 2 ^ pow < n THEN depthLoop(pow + 1, n) ELSE pow

depth(leaves) == depthLoop(0, Len(leaves))

\* a row builder that hashes an unpaired last element with itself
_getNodesDuplicate(leaves, h) ==
  LET remainder == Len(leaves) % 2
      pairs == (Len(leaves) - remainder) \div 2
  IN [k \in 1..(pairs + remainder) |->
        IF k <= pairs THEN Hash(h, leaves[2 * k - 1] \o leaves[2 * k])
        ELSE Hash(h, leaves[Len(leaves)] \o leaves[Len(leaves)])]

_getNodes(leaves, h) ==
  LET remainder == Len(leaves) % 2
      pairs == (Len(leaves) - remainder) \div 2
  IN [k \in 1..(pairs + remainder) |->
        IF k <= pairs THEN Hash(h, leaves[2 * k - 1] \o leaves[2 * k])
        ELSE leaves[Len(leaves)]]

\* the loop of _compute, from row j down to row 0
RECURSIVE computeLoop(_, _, _, _)
computeLoop(j, rows, count, h) ==
  IF j < 0 THEN [rows |-> rows, count |-> count]
  ELSE LET nodes == _getNodes(rows[j + 2], h)
       IN computeLoop(j - 1, [rows EXCEPT ![j + 1] = nodes], count + Len(nodes), h)

_compute(leaves, h) ==
  LET d == depth(leaves)
      rows0 == [j \in 1..(d + 1) |-> IF j = d + 1 THEN leaves ELSE <<>>]
  IN computeLoop(d - 1, rows0, 0, h)

\* new MerkleTree(leaves, hasher), once the two asserts have passed
MerkleTree(leaves, hasher) ==
  LET h == OrDefault(hasher)
      c == _compute(leaves, h)
  IN [_hasher |-> h, _leaves |-> leaves, _depth |-> depth(leaves),
      _rows |-> c.rows, _count |-> c.count]

\* root(): this._rows[0][0]
root(t) == IF t._rows[1] = <<>> THEN Undefined ELSE t._rows[1][1]

\* depth() on an instance: what it returns and leaves in _depth; the counter
\* runs again whenever the cached _depth is 0
depthOf(t) == IF t._depth = 0 THEN depth(t._leaves) ELSE t._depth

\* a depth() that counts by taking the leaves off their array, which is the
\* array of the leaf row as well
afterDepthConsuming(t) ==
  IF t._depth = 0
    THEN [t EXCEPT !._leaves = <<>>, !._rows[Len(t._rows)] = <<>>]
    ELSE t

\* the instance after a call of depth()
afterDepth(t) == [t EXCEPT !._depth = depthOf(t)]

\* levels(): this.depth() + 1
levels(t) == depthOf(t) + 1

\* nodes(): this._count
nodes(t) == t._count

\* what reading a missing row gives (rows[level] beyond the array)
NoRow == <<Undefined>>

\* level(level): this._rows[level]
level(t, i) == IF i + 1 \in DOMAIN t._rows THEN t._rows[i + 1] ELSE NoRow

----------------------------------------------------------------------------
(* lib/dag.js: DAG *)

\* DAG.DEFAULT_INPUT_SIZE: the string '4M'
DEFAULT_INPUT_SIZE == Text(4, "M")

NoValue == <<>>
Thrown(msg) == [threw |-> TRUE, error |-> msg, value |-> NoValue]
Value(v) == [threw |-> FALSE, error |-> "", value |-> v]

isSpace(c) == c \in {9, 10, 11, 12, 13, 32}
isDigit(c) == c \in 48..57

RECURSIVE TrimEnd(_)
TrimEnd(chars) ==
  IF chars # <<>> /\ isSpace(chars[Len(chars)])
    THEN TrimEnd(SubSeq(chars, 1, Len(chars) - 1))
    ELSE chars

RECURSIVE Decimal(_, _)
Decimal(chars, acc) ==
  IF chars = <<>> THEN acc ELSE Decimal(Tail(chars), acc * 10 + (Head(chars) - 48))

\* ToNumber of a string that starts with a digit, over the bytes of the model
\* (no sign, point, exponent or radix prefix can occur): white space at the end
\* is dropped, decimal digits are read, anything else gives NaN.
StringToNumber(chars) ==
  LET t == TrimEnd(chars)
  IN IF \A i \in 1..Len(t) : isDigit(t[i]) THEN Number(Decimal(t, 0)) ELSE NaN

\* offset < numBytes when offset is a string: false when it converts to NaN
StringLess(chars, n) ==
  LET v == StringToNumber(chars) IN v.kind = "number" /\ v.num < n

\* buf.fill(value) from offset to the end, value a non-empty buffer: the
\* pattern is repeated
FillPattern(buf, value, offset) ==
  [i \in 1..Len(buf) |->
     IF i <= offset THEN buf[i] ELSE value[((i - offset - 1) % Len(value)) + 1]]

\* buf.fill(0, offset)
FillZero(buf, offset) == [i \in 1..Len(buf) |-> IF i <= offset THEN buf[i] ELSE 0]

\* Buffer.alloc(n)
Alloc(n) == [i \in 1..n |-> 0]

\* DAG.randomFill(numBytes); random is what getRandomValues wrote, as far as
\* the fill reads it.  buf.fill returns buf, so offset += buf.fill(...) makes
\* offset the string "0" followed by the text of buf; the loop is left when
\* that string is not a number below numBytes, and otherwise the next fill is
\* handed a string for its offset and throws.
randomFill(numBytes, random) ==
  IF ~(0 < numBytes) THEN Value(Alloc(numBytes))
  ELSE LET buf == FillPattern(Alloc(numBytes), random, 0)
           offset == <<48>> \o buf
       IN IF StringLess(offset, numBytes)
            THEN Thrown("The \"offset\" argument must be of type number")
            ELSE Value(buf)

\* a callback that pads with random bytes whatever the flag says
PadShardRandomAlways(s, sliceSize, fill, random) ==
  IF sliceSize.kind # "number"
    THEN Thrown("The \"size\" argument must be of type number")
  ELSE IF s = <<>>
    THEN Thrown("The argument 'value' is invalid")
  ELSE LET bufN == FillPattern(Alloc(sliceSize.num), s, 0)
           r == randomFill(Len(bufN) - Len(s), random)
       IN IF Len(bufN) > Len(s)
            THEN IF r.threw THEN r ELSE Value(FillPattern(bufN, r.value, Len(s)))
            ELSE Value(FillZero(bufN, Len(s)))

\* the callback fromBuffer maps over the shards
PadShard(s, sliceSize, fill, random) ==
  IF sliceSize.kind # "number"
    THEN Thrown("The \"size\" argument must be of type number")
  ELSE IF s = <<>>
    THEN Thrown("The argument 'value' is invalid")
  ELSE LET bufN == FillPattern(Alloc(sliceSize.num), s, 0)
           r == randomFill(Len(bufN) - Len(s), random)
       IN IF fill /\ Len(bufN) > Len(s)
            THEN IF r.threw THEN r ELSE Value(FillPattern(bufN, r.value, Len(s)))
            ELSE Value(FillZero(bufN, Len(s)))

\* splitSync(...).map(callback): random[i] is the random source of shard i
RECURSIVE PadAll(_, _, _, _)
PadAll(shards, sliceSize, fill, random) ==
  IF shards = <<>> THEN Value(<<>>)
  ELSE LET h == PadShard(Head(shards), sliceSize, fill, Head(random))
           t == PadAll(Tail(shards), sliceSize, fill, Tail(random))
       IN IF h.threw THEN h
          ELSE IF t.threw THEN t
          ELSE Value(<<h.value>> \o t.value)

DEFAULT_OPTS(shards) == [sliceIndex |-> Number(SumLen(shards)), hashFunc |-> "default"]

\* new DAG(shards, opts)
DAG(shards, opts) ==
  LET defaults == DEFAULT_OPTS(shards)
      hf == IF opts.hashFunc = "undefined" THEN defaults.hashFunc ELSE opts.hashFunc
      leaves == [i \in 1..Len(shards) |-> Hash(hf, shards[i])]
  IN IF ~isFunction(hf) THEN Thrown("hashFunc is not a function")
     ELSE Value([shards |-> shards,
                 leaves |-> leaves,
                 merkle |-> MerkleTree(leaves, hf),
                 entries |-> [i \in 1..Len(shards) |-> <<leaves[i], shards[i]>>],
                 sliceIndex |-> IF opts.sliceIndex.kind = "undefined"
                                  THEN defaults.sliceIndex.num
                                  ELSE opts.sliceIndex.num])

\* the name arguments of the model; NoName is a call without the argument
NoName == "<undefined>"
Names == {NoName, "", "a.txt"}

\* a toMetadata that exports the first leaf where the root belongs
toMetadataFirstLeaf(d, name) ==
  IF root(d.merkle) = Undefined
    THEN Thrown("Cannot read properties of undefined (reading 'toString')")
    ELSE Value([n |-> IF name \in {NoName, ""} THEN "blob" ELSE name,
                l |-> [i \in 1..Len(d.leaves) |-> toHex(d.leaves[i])],
                r |-> toHex(d.leaves[1]),
                s |-> d.sliceIndex])

\* toArray(): this.shards
toArray(d) == d.shards

\* toMetadata(name): the object handed to JSON.stringify, whose text lists
\* the keys n, l, r, s in this order
toMetadata(d, name) ==
  IF root(d.merkle) = Undefined
    THEN Thrown("Cannot read properties of undefined (reading 'toString')")
    ELSE Value([n |-> IF name \in {NoName, ""} THEN "blob" ELSE name,
                l |-> [i \in 1..Len(d.leaves) |-> toHex(d.leaves[i])],
                r |-> toHex(root(d.merkle)),
                s |-> d.sliceIndex])

----------------------------------------------------------------------------
(* Inputs of the model *)

LinesValues == {Undef, Number(0), Number(1), Number(2)}
LineBytesValues == {Undef, Number(1), Number(2), Text(0, "K")}
OptionSets ==
  {[lines |-> l, bytes |-> b, line_bytes |-> lb] :
     l \in LinesValues, b \in {Undef} \cup SizeValues, lb \in LineBytesValues}

\* shards handed to new DAG directly, and leaves handed to new MerkleTree
ShardValues == SeqsOfLen(Byte, 1) \cup {<<49, 0>>}
LeafValues == {<<1>>, <<2>>, <<3, 4>>}
SliceIndexValues == {Undef, Number(1)}

\* the random sources of one fromBuffer: one per shard, as long as its padding
RandomSources(shards, sliceSize) ==
  IF sliceSize.kind # "number" THEN {[i \in 1..Len(shards) |-> <<>>]}
  ELSE {r \in [1..Len(shards) -> SeqsUpTo(Byte, Max(sliceSize.num - 1, 0))] :
          \A i \in 1..Len(shards) : Len(r[i]) = Max(sliceSize.num - Len(shards[i]), 0)}

----------------------------------------------------------------------------
(* The state machine *)

NoCall == [op |-> "none"]
NoResult == [status |-> "none", error |-> "", value |-> NoValue]
Ok(v) == [status |-> "ok", error |-> "", value |-> v]
Error(msg) == [status |-> "error", error |-> msg, value |-> NoValue]

Init ==
  /\ pc = "idle"
  /\ call = NoCall
  /\ options = NoOptions
  /\ lines = <<>>
  /\ mapped = <<>>
  /\ cur = <<>>
  /\ size = 0
  /\ begin = 0
  /\ end = 0
  /\ index = 0
  /\ lineCount = 0
  /\ splitted = <<>>
  /\ result = NoResult
  /\ dag = <<>>
  /\ tree = <<>>
  /\ meta = <<>>
  /\ prev = <<>>
  /\ built = <<>>
  /\ ret = <<>>

\* a call of splitByBytes(buffer, n): the loop's initial values
EnterBytes(buffer, n) ==
  /\ pc' = "splitByBytes"
  /\ cur' = buffer
  /\ size' = n
  /\ begin' = 0
  /\ end' = n
  /\ splitted' = <<>>
  /\ UNCHANGED <<index, lineCount>>

\* a call of splitByLines(buffer, n): the loop's initial values
EnterLines(buffer, n) ==
  /\ pc' = "splitByLines"
  /\ cur' = buffer
  /\ size' = n
  /\ begin' = 0
  /\ index' = 0
  /\ lineCount' = 1
  /\ splitted' = <<>>
  /\ UNCHANGED end

\* splitSync(buffer, _options) up to the first loop: checkOptions, then _split
EnterSplitSync(buffer, _options) ==
  LET c == checkOptions(_options)
  IN IF c.threw
       THEN /\ pc' = "done"
            /\ result' = Error(c.error)
            /\ UNCHANGED splitVars
       ELSE /\ options' = c.options
            /\ lines' = <<>>
            /\ mapped' = <<>>
            /\ result' = NoResult
            /\ IF isDefined("lines", c.options)
                 THEN EnterLines(buffer, c.options.lines.num)
               ELSE IF isDefined("bytes", c.options)
                 THEN EnterBytes(buffer, c.options.bytes.num)
               ELSE EnterLines(buffer, 1)

SplitSyncCall ==
  /\ pc = "idle"
  /\ \E buffer \in Buffers, o \in OptionSets :
       /\ call' = [op |-> "splitSync", buffer |-> buffer, options |-> o]
       /\ EnterSplitSync(buffer, o)
  /\ UNCHANGED objVars

FromBufferCall ==
  /\ pc = "idle"
  /\ \E buffer \in Buffers, sz \in {Undef} \cup SizeValues,
        hashFunc \in HashArgs, fill \in BOOLEAN :
       LET sliceSize == IF sz.kind = "undefined" THEN DEFAULT_INPUT_SIZE ELSE sz
       IN /\ call' = [op |-> "fromBuffer", buffer |-> buffer, sliceSize |-> sliceSize,
                      given |-> sz, hashFunc |-> OrDefault(hashFunc), randomFill |-> fill]
          /\ EnterSplitSync(buffer, [NoOptions EXCEPT !.bytes = sliceSize])
  /\ UNCHANGED objVars

\* splitByBytes returns arr: to _split in bytes mode, to the map callback in
\* line_bytes mode, which goes on to the next line or to the reduce
BytesReturn(arr) ==
  IF isDefined("bytes", options)
    THEN /\ pc' = "return"
         /\ splitted' = arr
         /\ UNCHANGED <<lines, mapped, cur, size, begin, end, index, lineCount>>
    ELSE /\ mapped' = Append(mapped, arr)
         /\ IF Len(mapped) + 1 < Len(lines)
              THEN EnterBytes(lines[Len(mapped) + 2], size)
              ELSE /\ pc' = "return"
                   /\ splitted' = Flatten(Append(mapped, arr))
                   /\ UNCHANGED <<cur, size, begin, end, index, lineCount>>
         /\ UNCHANGED lines

\* one iteration of the loop of splitByBytes.  A call that returns pushes at
\* most Len(cur) shards before its exit; the array of the model holds one
\* more than MaxLen, so only a loop that does not advance is cut short.
SplitByBytesStep ==
  /\ pc = "splitByBytes"
  /\ IF begin = Len(cur)
       THEN BytesReturn(splitted)
     ELSE IF Len(cur) < end
       THEN BytesReturn(Append(splitted, SliceFrom(cur, begin)))
     ELSE /\ Len(splitted) <= MaxLen
          /\ splitted' = Append(splitted, Slice(cur, begin, end))
          /\ begin' = end
          /\ end' = end + size
          /\ UNCHANGED <<pc, lines, mapped, cur, size, index, lineCount>>
  /\ UNCHANGED <<call, options, result, objVars>>

\* splitByLines returns arr: to _split in lines mode, to the map in line_bytes mode
LinesReturn(arr) ==
  IF isDefined("lines", options)
    THEN /\ pc' = "return"
         /\ splitted' = arr
         /\ UNCHANGED <<lines, mapped, cur, size, begin, end, index, lineCount>>
    ELSE /\ lines' = arr
         /\ mapped' = <<>>
         /\ IF arr = <<>>
              THEN /\ pc' = "return"
                   /\ splitted' = <<>>
                   /\ UNCHANGED <<cur, size, begin, end, index, lineCount>>
              ELSE EnterBytes(arr[1], options.line_bytes.num)

\* one iteration of the loop of splitByLines
SplitByLinesStep ==
  /\ pc = "splitByLines"
  /\ IF begin = Len(cur)
       THEN LinesReturn(splitted)
     ELSE IF Len(cur) < index
       THEN LinesReturn(Append(splitted, SliceFrom(cur, begin)))
     ELSE /\ index' = index + 1
          /\ IF index < Len(cur) /\ cur[index + 1] = LF
               THEN IF lineCount = size
                      THEN /\ splitted' = Append(splitted, Slice(cur, begin, index + 1))
                           /\ begin' = index + 1
                           /\ lineCount' = 1
                      ELSE /\ lineCount' = lineCount + 1
                           /\ UNCHANGED <<splitted, begin>>
               ELSE UNCHANGED <<splitted, begin, lineCount>>
          /\ UNCHANGED <<pc, lines, mapped, cur, size, end>>
  /\ UNCHANGED <<call, options, result, objVars>>

\* the rest of splitSync: without a prefix createFilenames cannot throw and
\* nothing is written
SplitSyncReturn ==
  /\ pc = "return"
  /\ call.op = "splitSync"
  /\ pc' = "done"
  /\ result' = Ok(splitted)
  /\ UNCHANGED <<call, splitVars, objVars>>

\* the rest of fromBuffer: pad every shard, then new DAG
FromBufferReturn ==
  /\ pc = "return"
  /\ call.op = "fromBuffer"
  /\ \E random \in RandomSources(splitted, call.sliceSize) :
       LET padded == PadAll(splitted, call.sliceSize, call.randomFill, random)
           d == DAG(padded.value, [sliceIndex |-> Number(Len(call.buffer)),
                                   hashFunc |-> call.hashFunc])
       IN IF padded.threw
            THEN result' = Error(padded.error) /\ dag' = <<>>
          ELSE IF d.threw
            THEN result' = Error(d.error) /\ dag' = <<>>
          ELSE result' = Ok(NoValue) /\ dag' = <<d.value>>
  /\ built' = dag'
  /\ pc' = "done"
  /\ UNCHANGED <<call, splitVars, tree, meta, prev, ret>>

NewDAG ==
  /\ pc = "idle"
  /\ \E shards \in SeqsUpTo(ShardValues, MaxShards), si \in SliceIndexValues,
        hashFunc \in HashArgs :
       LET d == DAG(shards, [sliceIndex |-> si, hashFunc |-> hashFunc])
       IN /\ call' = [op |-> "DAG", shards |-> shards, sliceIndex |-> si,
                      hashFunc |-> hashFunc]
          /\ IF d.threw
               THEN result' = Error(d.error) /\ dag' = <<>>
               ELSE result' = Ok(NoValue) /\ dag' = <<d.value>>
  /\ built' = dag'
  /\ pc' = "done"
  /\ UNCHANGED <<splitVars, tree, meta, prev, ret>>

\* new MerkleTree(leaves, hasher): the assert on the hasher, then the tree
NewMerkleTree ==
  /\ pc = "idle"
  /\ \E leaves \in SeqsUpTo(LeafValues, MaxLeaves), hasher \in HashArgs :
       /\ call' = [op |-> "MerkleTree", leaves |-> leaves, hasher |-> hasher]
       /\ IF ~isFunction(OrDefault(hasher))
            THEN result' = Error("Invalid hash function supplied") /\ tree' = <<>>
            ELSE result' = Ok(NoValue) /\ tree' = <<MerkleTree(leaves, hasher)>>
  /\ built' = tree'
  /\ pc' = "done"
  /\ UNCHANGED <<splitVars, dag, meta, prev, ret>>

\* dag.toMetadata(name) on the instance the last construction returned; before
\* keeps the outcome of the call just before it when that had the same name
ToMetadata ==
  /\ pc = "done"
  /\ dag # <<>>
  /\ \E name \in Names :
       LET m == toMetadata(dag[1], name)
       IN meta' = <<[name |-> name, threw |-> m.threw, error |-> m.error,
                    value |-> m.value,
                    before |-> IF meta # <<>> /\ meta[1].name = name
                                 THEN <<[threw |-> meta[1].threw, error |-> meta[1].error,
                                         value |-> meta[1].value]>>
                                 ELSE <<>>]>>
  /\ UNCHANGED <<pc, call, splitVars, result, dag, tree, prev, built, ret>>

\* what a call of toArray or of a tree method returned
Returns(op, arg, value) == [op |-> op, arg |-> arg, value |-> value]

\* dag.toArray().  The methods below are called on the instance of a first
\* construction; a second one is made for the comparison with the first.
ToArray ==
  /\ pc = "done"
  /\ prev = <<>>
  /\ dag # <<>>
  /\ ret' = <<Returns("toArray", 0, toArray(dag[1]))>>
  /\ UNCHANGED <<pc, call, splitVars, result, dag, tree, meta, prev, built>>

\* the tree the caller holds: the one constructed directly, or dag.merkle
HasTree == pc = "done" /\ prev = <<>> /\ (tree # <<>> \/ dag # <<>>)
TheTree == IF tree # <<>> THEN tree[1] ELSE dag[1].merkle

\* the method ran on the tree and left it as t
PutTree(t) ==
  IF tree # <<>>
    THEN tree' = <<t>> /\ UNCHANGED dag
    ELSE dag' = <<[dag[1] EXCEPT !.merkle = t]>> /\ UNCHANGED tree

\* tree.depth(): assigns _depth when it finds it 0
TreeDepth ==
  /\ HasTree
  /\ ret' = <<Returns("depth", 0, depthOf(TheTree))>>
  /\ PutTree(afterDepth(TheTree))
  /\ UNCHANGED <<pc, call, splitVars, result, meta, prev, built>>

\* tree.levels(): calls depth()
TreeLevels ==
  /\ HasTree
  /\ ret' = <<Returns("levels", 0, levels(TheTree))>>
  /\ PutTree(afterDepth(TheTree))
  /\ UNCHANGED <<pc, call, splitVars, result, meta, prev, built>>

\* tree.nodes()
TreeNodes ==
  /\ HasTree
  /\ ret' = <<Returns("nodes", 0, nodes(TheTree))>>
  /\ UNCHANGED <<pc, call, splitVars, result, dag, tree, meta, prev, built>>

\* tree.root()
TreeRoot ==
  /\ HasTree
  /\ ret' = <<Returns("root", 0, root(TheTree))>>
  /\ UNCHANGED <<pc, call, splitVars, result, dag, tree, meta, prev, built>>

\* tree.level(i), for the rows there are and the first index beyond them
TreeLevel ==
  /\ HasTree
  /\ \E i \in 0..Len(TheTree._rows) :
       ret' = <<Returns("level", i, level(TheTree, i))>>
  /\ UNCHANGED <<pc, call, splitVars, result, dag, tree, meta, prev, built>>

\* the same fromBuffer call once more, made before any method of the first
\* instance, whose outcome is kept for comparison
FromBufferAgain ==
  /\ pc = "done"
  /\ call.op = "fromBuffer"
  /\ prev = <<>>
  /\ meta = <<>>
  /\ ret = <<>>
  /\ prev' = <<[result |-> result, dag |-> dag]>>
  /\ dag' = <<>>
  /\ built' = <<>>
  /\ EnterSplitSync(call.buffer, [NoOptions EXCEPT !.bytes = call.sliceSize])
  /\ UNCHANGED <<call, tree, meta, ret>>

\* the caller drops what the last call returned
Release ==
  /\ pc = "done"
  /\ pc' = "idle"
  /\ call' = NoCall
  /\ options' = NoOptions
  /\ lines' = <<>>
  /\ mapped' = <<>>
  /\ cur' = <<>>
  /\ size' = 0
  /\ begin' = 0
  /\ end' = 0
  /\ index' = 0
  /\ lineCount' = 0
  /\ splitted' = <<>>
  /\ result' = NoResult
  /\ dag' = <<>>
  /\ tree' = <<>>
  /\ meta' = <<>>
  /\ prev' = <<>>
  /\ built' = <<>>
  /\ ret' = <<>>

Next ==
  \/ SplitSyncCall
  \/ FromBufferCall
  \/ SplitByBytesStep
  \/ SplitByLinesStep
  \/ SplitSyncReturn
  \/ FromBufferReturn
  \/ NewDAG
  \/ NewMerkleTree
  \/ ToMetadata
  \/ ToArray
  \/ TreeDepth
  \/ TreeLevels
  \/ TreeNodes
  \/ TreeRoot
  \/ TreeLevel
  \/ FromBufferAgain
  \/ Release

Spec == Init /\ [][Next]_vars

----------------------------------------------------------------------------
(* Properties *)

Done(op) == pc = "done" /\ call.op = op

\* the odd-carry fold, stated on its own: pair up, hash left then right,
\* carry an unpaired last element as it is, until one element is left
CarryRow(row, h) ==
  [k \in 1..((Len(row) + 1) \div 2) |->
     IF 2 * k <= Len(row) THEN Hash(h, row[2 * k - 1] \o row[2 * k]) ELSE row[Len(row)]]

RECURSIVE OddCarryFold(_, _)
OddCarryFold(row, h) == IF Len(row) = 1 THEN row[1] ELSE OddCarryFold(CarryRow(row, h), h)

RootIsFold(t) ==
  LET l == t._leaves
      h == t._hasher
  IN Len(l) >= 1 =>
       /\ root(t) = OddCarryFold(l, h)
       /\ Len(l) = 1 => root(t) = l[1]
       /\ Len(l) = 2 => root(t) = Hash(h, l[1] \o l[2])
       /\ Len(l) = 3 => root(t) = Hash(h, Hash(h, l[1] \o l[2]) \o l[3])

\* C1: for every non-empty leaf sequence and hasher, root() is the odd-carry
\* fold of the leaves: adjacent pairs are replaced by the hash of left then
\* right, an unpaired last element is carried unchanged, until one element
\* is left; so the root is l0 for one leaf, H(l0 l1) for two and
\* H(H(l0 l1) l2) for three.
C1_RootIsOddCarryFold ==
  /\ tree # <<>> => RootIsFold(tree[1])
  /\ dag # <<>> => RootIsFold(dag[1].merkle)

\* a tree of five leaves, not all equal: the carry happens on two rows
C1_Witness ==
  /\ Done("MerkleTree")
  /\ tree # <<>>
  /\ Len(tree[1]._leaves) = 5
  /\ tree[1]._leaves[5] # tree[1]._leaves[1]
  /\ root(tree[1]) = OddCarryFold(tree[1]._leaves, tree[1]._hasher)

\* the byte-mode call splitSync(b, {bytes: n}) with n a positive integer
ByteModeCall ==
  /\ Done("splitSync")
  /\ call.options.lines = Undef
  /\ call.options.line_bytes = Undef
  /\ call.options.bytes.kind = "number"
  /\ call.options.bytes.num >= 1

\* C2: byte-mode splitting of b by a positive integer n returns shards that
\* all have length n except the last, which has 1..n bytes; none is empty,
\* an empty buffer gives no shard, and the shards concatenated are b.
C2_ByteSplit ==
  ByteModeCall =>
    LET n == call.options.bytes.num
        shards == result.value
    IN /\ result.status = "ok"
       /\ \A i \in 1..Len(shards) :
            /\ i < Len(shards) => Len(shards[i]) = n
            /\ 1 <= Len(shards[i]) /\ Len(shards[i]) <= n
       /\ call.buffer = <<>> => shards = <<>>
       /\ Flatten(shards) = call.buffer

\* a buffer of three bytes split by two: a full shard and a shorter last one
C2_Witness ==
  /\ ByteModeCall
  /\ Len(call.buffer) = 3
  /\ call.options.bytes.num = 2
  /\ Len(result.value) = 2
  /\ Len(result.value[2]) = 1

\* fromBuffer(b, n, H, _, randomFill) with b not empty, n a positive integer
FromBufferCase ==
  /\ Done("fromBuffer")
  /\ call.buffer # <<>>
  /\ call.given.kind = "number"
  /\ call.given.num >= 1
  /\ isFunction(call.hashFunc)

CeilDiv(a, b) == (a + b - 1) \div b

\* C3: fromBuffer on a non-empty buffer b with a positive integer size n
\* returns ceil(len(b) / n) shards of exactly n bytes whose concatenation
\* starts with b, and sets sliceIndex to len(b); with zero fill every byte
\* from offset len(b) on is 0, with random fill only those bytes may differ.
C3_FromBufferPads ==
  FromBufferCase =>
    /\ result.status = "ok"
    /\ dag # <<>>
    /\ LET d == dag[1]
           n == call.given.num
           b == call.buffer
           all == Flatten(d.shards)
       IN /\ Len(d.shards) = CeilDiv(Len(b), n)
          /\ \A i \in 1..Len(d.shards) : Len(d.shards[i]) = n
          /\ SubSeq(all, 1, Len(b)) = b
          /\ d.sliceIndex = Len(b)
          /\ ~call.randomFill => \A i \in (Len(b) + 1)..Len(all) : all[i] = 0

\* the name toMetadata exports for an argument
ExportedName(name) == IF name \in {NoName, ""} THEN "blob" ELSE name

C5_EmptyRejected ==
  /\ (Done("MerkleTree") /\ call.leaves = <<>>) => (result.status = "error" /\ tree = <<>>)
  /\ (Done("DAG") /\ call.shards = <<>>) => (result.status = "error" /\ dag = <<>>)
  /\ (Done("fromBuffer") /\ call.buffer = <<>>) => (result.status = "error" /\ dag = <<>>)
  /\ tree # <<>> => root(tree[1]) # Undefined
  /\ dag # <<>> => root(dag[1].merkle) # Undefined
  /\ meta # <<>> => ~meta[1].threw

\* the modes an options object asks for
Modes(o) == {m \in {"lines", "bytes", "line_bytes"} : isDefined(m, o)}

\* the byte count a size value stands for; 0 when it stands for none
Denotes(v) ==
  IF v.kind = "number" THEN v.num
  ELSE IF v.kind = "string" /\ v.unit = "" THEN v.num
  ELSE IF RegexMatches(v) /\ unit(v.unit).kind = "number" THEN v.num * unit(v.unit).num
  ELSE 0

\* checkOptions has returned in the running or completed splitSync
Accepted == pc \in {"splitByBytes", "splitByLines", "return"} \/ (pc = "done" /\ result.status = "ok")

\* C6: splitSync raises an error and returns no shards when more than one
\* mode is asked for, when none is, or when the byte size is not a positive
\* integer; so a bytes or line_bytes value that checkOptions accepts, number
\* or shorthand, reaches the loop as an integer >= 1.
C6_OptionsValidated ==
  /\ (call.op \in {"splitSync", "fromBuffer"} /\ Accepted) =>
       /\ isDefined("bytes", options) => options.bytes.num >= 1
       /\ isDefined("line_bytes", options) => options.line_bytes.num >= 1
  /\ (call.op = "splitSync" /\ pc # "idle") =>
       LET o == call.options
           bad == \/ Cardinality(Modes(o)) # 1
                  \/ isDefined("bytes", o) /\ Denotes(o.bytes) < 1
                  \/ isDefined("line_bytes", o) /\ Denotes(o.line_bytes) < 1
       IN bad => (pc = "done" /\ result.status = "error" /\ result.value = <<>>)

\* C7: no call runs for ever: splitSync in each mode, and fromBuffer with
\* it, ends by returning or by raising an error; the loops of splitByBytes
\* and splitByLines reach their exit for every size checkOptions lets
\* through.  A call in progress can always take its next step.
C7_Terminates == pc \in {"idle", "done"} \/ ENABLED Next

\* C8: two fromBuffer constructions from the same buffer, size and hasher
\* with zero fill return the same shards, leaves, root and originalLength,
\* hence the same l, r and s; the name given to toMetadata changes n alone.
C8_Deterministic ==
  /\ (Done("fromBuffer") /\ prev # <<>> /\ ~call.randomFill) =>
       /\ prev[1].result = result
       /\ (prev[1].dag = <<>>) = (dag = <<>>)
       /\ dag # <<>> =>
            LET d1 == prev[1].dag[1]
                d2 == dag[1]
                m1 == toMetadata(d1, NoName)
                m2 == toMetadata(d2, NoName)
            IN /\ d1.shards = d2.shards
               /\ d1.leaves = d2.leaves
               /\ root(d1.merkle) = root(d2.merkle)
               /\ d1.sliceIndex = d2.sliceIndex
               /\ m1.threw = m2.threw
               /\ ~m1.threw => /\ m1.value.l = m2.value.l
                               /\ m1.value.r = m2.value.r
                               /\ m1.value.s = m2.value.s
  /\ dag # <<>> =>
       \A n1, n2 \in Names :
         LET m1 == toMetadata(dag[1], n1)
             m2 == toMetadata(dag[1], n2)
         IN /\ m1.threw = m2.threw
            /\ ~m1.threw => /\ m1.value.l = m2.value.l
                            /\ m1.value.r = m2.value.r
                            /\ m1.value.s = m2.value.s

\* the second of two zero-fill constructions from three bytes and size 2: the
\* last shard was padded both times
C8_Witness ==
  /\ Done("fromBuffer")
  /\ prev # <<>>
  /\ ~call.randomFill
  /\ Len(call.buffer) = 3
  /\ call.sliceSize = Number(2)
  /\ dag # <<>>
  /\ prev[1].dag = dag
  /\ Len(dag[1].shards) = 2

\* C9: leaves whose digests do not all have the same length fail at
\* construction, before a row is computed; no tree is returned whose root
\* comes from concatenating digests of different lengths.
C9_MismatchRejected ==
  (Done("MerkleTree") /\ \E i, j \in 1..Len(call.leaves) :
                           Len(call.leaves[i]) # Len(call.leaves[j])) =>
    (result.status = "error" /\ tree = <<>>)

\* C10: fromBuffer on a non-empty buffer without a shard size uses '4M' =
\* 4,194,304 bytes: it succeeds and every shard has that many bytes; for any
\* size the splitter accepts, number or shorthand, every shard is padded to
\* the byte count the splitter split by (zero fill).
C10_DefaultSize ==
  /\ (Done("fromBuffer") /\ call.buffer # <<>> /\ call.given = Undef
        /\ isFunction(call.hashFunc)) =>
       /\ result.status = "ok"
       /\ dag # <<>>
       /\ \A i \in 1..Len(dag[1].shards) : Len(dag[1].shards[i]) = 4 * UnitM
  /\ (Done("fromBuffer") /\ call.buffer # <<>> /\ isDefined("bytes", options)
        /\ isFunction(call.hashFunc) /\ ~call.randomFill) =>
       /\ result.status = "ok"
       /\ dag # <<>>
       /\ \A i \in 1..Len(dag[1].shards) : Len(dag[1].shards[i]) = options.bytes.num

\* the least d >= 0 with 2^d >= m, stated on its own
LeastPow(m) == CHOOSE d \in 0..m : 2 ^ d >= m /\ \A e \in 0..(d - 1) : 2 ^ e < m

RECURSIVE RowsTotal(_, _)
RowsTotal(rows, upTo) ==
  IF upTo = 0 THEN 0 ELSE Len(rows[upTo]) + RowsTotal(rows, upTo - 1)

\* row j of the code is level(t, j); rows 0..d and no row d + 1
TreeShape(t) ==
  LET m == Len(t._leaves)
      d == LeastPow(m)
  IN m >= 1 =>
       /\ depthOf(t) = d
       /\ levels(t) = d + 1
       /\ Len(t._rows) = d + 1
       /\ \A j \in 0..d : level(t, j) # NoRow
       /\ level(t, d + 1) = NoRow
       /\ level(t, d) = t._leaves
       /\ \A j \in 0..(d - 1) : Len(level(t, j)) = CeilDiv(Len(level(t, j + 1)), 2)
       /\ Len(level(t, 0)) = 1
       /\ nodes(t) = RowsTotal(t._rows, d)
       /\ m = 1 => (d = 0 /\ nodes(t) = 0)

\* C11: a tree built from m >= 1 leaves has exactly depth + 1 rows, indexed
\* 0..depth, where depth is the least d >= 0 with 2^d >= m (0 for m = 1);
\* row depth is the leaf sequence in order, every row j < depth has
\* ceil(len(row j+1) / 2) elements, row 0 has exactly one element, and
\* nodes() is the number of elements in rows 0..depth-1 (0 when m = 1).
C11_TreeShape ==
  /\ tree # <<>> => (tree[1]._leaves = call.leaves /\ TreeShape(tree[1]))
  /\ dag # <<>> => (dag[1].merkle._leaves = dag[1].leaves /\ TreeShape(dag[1].merkle))

\* a tree of five leaves: rows of 1, 2, 3 and 5 elements, six nodes above the
\* leaves, the fifth leaf carried up two rows
C11_Witness ==
  /\ Done("MerkleTree")
  /\ tree # <<>>
  /\ Len(tree[1]._leaves) = 5
  /\ depthOf(tree[1]) = 3
  /\ Len(level(tree[1], 1)) = 2
  /\ Len(level(tree[1], 2)) = 3
  /\ level(tree[1], 2)[3] = tree[1]._leaves[5]
  /\ nodes(tree[1]) = 6

\* the fields of a DAG, and the rows of a tree, are those construction left
SameDAG(d, b) ==
  /\ d.shards = b.shards
  /\ d.leaves = b.leaves
  /\ d.merkle._rows = b.merkle._rows
  /\ d.merkle._leaves = b.merkle._leaves
  /\ d.sliceIndex = b.sliceIndex

\* what a method returns on the instance as it was constructed
ViewOf(t, r) ==
  CASE r.op = "depth" -> depthOf(t)
    [] r.op = "levels" -> levels(t)
    [] r.op = "nodes" -> nodes(t)
    [] r.op = "root" -> root(t)
    [] r.op = "level" -> level(t, r.arg)

\* C12: after construction, whatever calls of toArray(), toMetadata(name),
\* root(), depth(), levels(), nodes() and level(i) have been made, the DAG's
\* shards, leaves, tree rows and originalLength are those construction
\* left; toArray() returns the shard sequence the DAG was constructed
\* with; and a toMetadata call that follows one with the same name
\* returns the same output.
C12_ViewsLeaveStateAlone ==
  /\ dag # <<>> => (built # <<>> /\ SameDAG(dag[1], built[1]))
  /\ tree # <<>> =>
       /\ built # <<>>
       /\ tree[1]._rows = built[1]._rows
       /\ tree[1]._leaves = built[1]._leaves
  /\ (ret # <<>> /\ ret[1].op = "toArray") =>
       /\ ret[1].value = built[1].shards
       /\ call.op = "DAG" => ret[1].value = call.shards
  /\ (ret # <<>> /\ ret[1].op # "toArray") =>
       ret[1].value = ViewOf(IF tree # <<>> THEN built[1] ELSE built[1].merkle, ret[1])
  /\ meta # <<>> =>
       LET m == toMetadata(built[1], meta[1].name)
       IN /\ meta[1].threw = m.threw
          /\ meta[1].value = m.value
          /\ meta[1].before # <<>> =>
               /\ meta[1].before[1].threw = meta[1].threw
               /\ meta[1].before[1].error = meta[1].error
               /\ meta[1].before[1].value = meta[1].value

\* a DAG of one padded shard, whose tree has depth 0 so that every depth()
\* runs the counter and assigns _depth again: toMetadata("a.txt") has
\* returned twice, and level(0) has returned the root row since
C12_Witness ==
  /\ Done("fromBuffer")
  /\ dag # <<>>
  /\ Len(dag[1].shards) = 1
  /\ dag[1].sliceIndex < Len(dag[1].shards[1])
  /\ meta # <<>>
  /\ meta[1].name = "a.txt"
  /\ meta[1].before # <<>>
  /\ ~meta[1].threw
  /\ ret # <<>>
  /\ ret[1].op = "level"
  /\ ret[1].arg = 0
  /\ ret[1].value = dag[1].leaves

====
